---- MODULE Spec2Model ----
(***************************************************************************)
(* A room session of the bill-splitting client (RoomDetails.tsx): the      *)
(* component state, its three network operations (fetchRoomDetails,        *)
(* handleFileUpload, handleTagToggle) split at their await points, the     *)
(* share computation calculateShares, and the room resource they talk to.  *)
(*                                                                         *)
(* Conventions.                                                            *)
(*  - JavaScript arrays are 0-based, TLA+ sequences 1-based: itemIndex k   *)
(*    of the code is position k+1 here.                                    *)
(*  - ReceiptItem.tags (string[]) is kept duplicate-free by the room       *)
(*    resource; it is a set here, `includes` is \in and `length` is        *)
(*    Cardinality.                                                         *)
(*  - Amounts of the share table are exact: a share is held as an integer  *)
(*    number of 1/Scale currency units, Scale being divisible by every     *)
(*    possible tag count, so price / taggedUsers.length loses nothing.     *)
(*  - null is the record Null.                                             *)
(***************************************************************************)
EXTENDS Integers, Sequences, FiniteSets, Bags, TLC

\* ------------------------------------------------------------- bounds
\* People who can be in the room (the creator and those who join later).
NUsers == 2
\* Requests of the session that may be awaiting the server or the client.
MaxOutstanding == 2
\* Operations of the session's user (a file selected, a tag button pressed)
\* plus changes that reach the room resource from elsewhere.
MaxOps == 3

\* ------------------------------------------------------------- values
UserName == <<"A", "B", "C", "D", "E">>
Users == {UserName[i] : i \in 1..NUsers}
Creator == UserName[1]

Null == [null |-> TRUE]

RECURSIVE Gcd(_, _)
Gcd(a, b) == IF b = 0 THEN a ELSE Gcd(b, a % b)

RECURSIVE LcmUpTo(_)
LcmUpTo(n) == IF n <= 1 THEN 1 ELSE (LcmUpTo(n - 1) * n) \div Gcd(LcmUpTo(n - 1), n)

\* Share amounts are counted in 1/Scale currency units.
Scale == LcmUpTo(NUsers)

\* x / k of the code, for an amount x given in currency units.
Divide(x, k) == (x * Scale) \div k

\* What the receipt parser may return for an uploaded image (tags empty).
Item(name, price) == [item |-> name, price |-> price, tags |-> {}]

ParsedReceipts ==
    { [items |-> <<Item("Pizza", 300), Item("Cola", 120)>>,
       cgst |-> 6, sgst |-> 6, serviceCharge |-> 30] }

\* Positions of the items a receipt can have.
ItemIndices == UNION {DOMAIN parsed.items : parsed \in ParsedReceipts}

\* Arguments handleTagToggle(itemIndex: number) is called with: the positions of
\* the items and one position on either side of them.
CallIndices == ItemIndices \cup {0, Cardinality(ItemIndices) + 1}

FileTypes == {"image/jpeg", "image/png", "application/pdf"}

\* ------------------------------------------------------------- state
VARIABLES
    \* the room resource (remote store)
    srvParticipants,   \* ordered participants of the room, creator first
    srvReceipt,        \* the stored receipt, or Null
    srvActive,         \* isActive of the room
    \* the RoomDetails component (useState hooks)
    room,              \* RoomData or Null
    loading,
    error,
    uploadLoading,
    receiptData,       \* Receipt or Null
    userShares,        \* the share table: userId -> amount, sparse
    \* the network
    requests,          \* bag of requests on their way to the room resource
    responses,         \* bag of responses on their way to the component
    \* history
    last,              \* the step that led here: [op, msg]
    ops,               \* user operations and outside changes so far
    pair,              \* progress of two consecutive toggles of one item
    before             \* receipt and shares when the upload under way began

vars == <<srvParticipants, srvReceipt, srvActive, room, loading, error, uploadLoading,
          receiptData, userShares, requests, responses, last, ops, pair,
          before>>

srvVars == <<srvParticipants, srvReceipt, srvActive>>
viewVars == <<room, loading, error, uploadLoading>>

\* ------------------------------------------------- calculateShares
Range(s) == {s[i] : i \in DOMAIN s}

\* shares[userId] || 0
ShareOrZero(shares, userId) ==
    IF userId \in DOMAIN shares THEN shares[userId] ELSE 0

\* taggedUsers.forEach(userId => shares[userId] = (shares[userId] || 0) + shareAmount)
AddToTagged(shares, taggedUsers, shareAmount) ==
    [userId \in DOMAIN shares \cup taggedUsers |->
        IF userId \in taggedUsers
        THEN ShareOrZero(shares, userId) + shareAmount
        ELSE shares[userId]]

\* AddItem with the division forgotten: every tagged user is charged the
\* whole price.
AddItemFullPrice(shares, item) ==
    LET taggedUsers == item.tags
    IN IF Cardinality(taggedUsers) > 0
       THEN AddToTagged(shares, taggedUsers, Divide(item.price, 1))
       ELSE shares

\* The body of items.forEach for one item.
AddItem(shares, item) ==
    LET taggedUsers == item.tags
    IN IF Cardinality(taggedUsers) > 0
       THEN AddToTagged(shares, taggedUsers,
                        Divide(item.price, Cardinality(taggedUsers)))
       ELSE shares

RECURSIVE SharesUpTo(_, _)
SharesUpTo(items, n) ==
    IF n = 0 THEN << >> ELSE AddItem(SharesUpTo(items, n - 1), items[n])

\* The table calculateShares(items) hands to setUserShares.
calculateShares(items) == SharesUpTo(items, Len(items))

\* ------------------------------------------------------------- helpers
Outstanding == BagCardinality(requests) + BagCardinality(responses)

Send(m) == requests' = requests (+) SetToBag({m})
Reply(m, r) ==
    /\ requests' = requests (-) SetToBag({m})
    /\ responses' = responses (+) SetToBag({r})
Receive(r) == responses' = responses (-) SetToBag({r})

Step(op, msg) == last' = [op |-> op, msg |-> msg]

FetchRequest(chained) == [type |-> "fetch", chained |-> chained]

\* The page below the loading and the error branches is on screen.
Rendered == ~loading /\ error = "" /\ room # Null

\* The branch `if (error || !room)` is on screen instead: the message alone.
ErrorShown == ~loading /\ (error # "" \/ room = Null)

\* ------------------------------------------------- history of a toggle pair
\* pair follows two consecutive toggles of one item by the session: phase 1 the
\* first is under way, 2 its response is applied, 3 the second is under way,
\* 4 the second is applied too. It is dropped (phase 0) when a toggle of the
\* pair is refused or fails, when the session has another toggle of the item
\* under way, when another client changes the item or the receipt is replaced
\* at the room resource, or when a fetch or an upload replaces the local receipt.
NoPair == [phase |-> 0]

RECURSIVE CopiesOf(_, _)
CopiesOf(S, bag) ==
    IF S = {} THEN 0
    ELSE LET m == CHOOSE x \in S : TRUE
         IN CopiesIn(m, bag) + CopiesOf(S \ {m}, bag)

\* Toggle requests of the session for an item that are not yet answered, and
\* answers not yet processed.
TogglesOutstanding(itemIndex) ==
    CopiesOf({m \in BagToSet(requests) :
                 m.type = "toggle" /\ m.itemIndex = itemIndex}, requests)
    + CopiesOf({r \in BagToSet(responses) :
                 r.type = "toggle" /\ r.req.itemIndex = itemIndex}, responses)

\* A completed pair is on record in the state its last step leads to only.
PairKept == IF pair.phase = 4 THEN NoPair ELSE pair

PairTracks(itemIndex) == pair.phase \in 1..3 /\ pair.itemIndex = itemIndex

PairOnSend(m) ==
    IF m.itemIndex \notin DOMAIN receiptData.items THEN PairKept
    ELSE IF pair.phase = 2 /\ pair.itemIndex = m.itemIndex
    THEN IF pair.userId = m.userId THEN [pair EXCEPT !.phase = 3] ELSE NoPair
    ELSE IF PairTracks(m.itemIndex) THEN NoPair
    ELSE IF pair.phase \in 1..3 THEN pair
    ELSE IF TogglesOutstanding(m.itemIndex) = 0
    THEN [phase |-> 1, itemIndex |-> m.itemIndex, userId |-> m.userId,
          srvTags |-> srvReceipt.items[m.itemIndex].tags,
          localTags |-> receiptData.items[m.itemIndex].tags]
    ELSE NoPair

\* localTags: the local tag set of the item once the response is applied.
PairOnAnswer(r, localTags) ==
    IF ~PairTracks(r.req.itemIndex) THEN PairKept
    ELSE IF ~r.success THEN NoPair
    ELSE IF pair.phase = 1 THEN [pair EXCEPT !.phase = 2]
    ELSE IF pair.phase = 3
    THEN [phase |-> 4,
          upToDate |-> pair.srvTags = pair.localTags,
          srvRestored |-> srvReceipt.items[pair.itemIndex].tags = pair.srvTags,
          localRestored |-> localTags = pair.localTags]
    ELSE NoPair

PairDroppedIf(cond) == IF cond THEN NoPair ELSE PairKept

\* ------------------------------------------------- history of an upload
\* before holds the local receipt and share table as they were when the file
\* was selected, until the step after the one that ends the upload operation.
\* It is dropped when a toggle response changes the local receipt meanwhile.
Snapshot == [receiptData |-> receiptData, userShares |-> userShares]

BeforeKept == IF uploadLoading THEN before ELSE Null

\* ------------------------------------------------------------- Init
\* The component has mounted and its effect has called fetchRoomDetails. The
\* room exists; a receipt may have been uploaded to it already, and the room
\* may have been closed (isActive = false).
Init ==
    /\ srvParticipants = <<Creator>>
    /\ srvReceipt \in {Null} \cup ParsedReceipts
    /\ srvActive \in BOOLEAN
    /\ room = Null
    /\ loading = TRUE
    /\ error = ""
    /\ uploadLoading = FALSE
    /\ receiptData = Null
    /\ userShares = << >>
    /\ requests = SetToBag({FetchRequest(FALSE)})
    /\ responses = EmptyBag
    /\ last = [op |-> "mount", msg |-> Null]
    /\ ops = 0
    /\ pair = [phase |-> 0]
    /\ before = Null

\* ------------------------------------------------- the room resource
\* Another person joins the room (POST joinRoom from their JoinRoom page); a
\* room that is not active takes no new participants and no new tags.
Join ==
    /\ srvActive
    /\ Len(srvParticipants) < NUsers
    /\ srvParticipants' = Append(srvParticipants, UserName[Len(srvParticipants) + 1])
    /\ Step("server", Null)
    /\ UNCHANGED ops
    /\ pair' = PairKept
    /\ before' = BeforeKept
    /\ UNCHANGED <<srvReceipt, srvActive, room, loading, error, uploadLoading,
                   receiptData, userShares, requests, responses>>

\* The tag set of an item after the room resource applies a toggle.
TagsAfter(tags, userId, action) ==
    IF action = "add" THEN tags \cup {userId} ELSE tags \ {userId}

ToggledItems(items, itemIndex, userId, action) ==
    [items EXCEPT ![itemIndex].tags = TagsAfter(@, userId, action)]

\* Another participant's client toggles a tag; the room resource applies it.
OtherToggle(itemIndex, userId) ==
    /\ srvActive
    /\ srvReceipt # Null
    /\ itemIndex \in DOMAIN srvReceipt.items
    /\ userId \in Range(srvParticipants)
    /\ \E action \in {"add", "remove"} :
          /\ TagsAfter(srvReceipt.items[itemIndex].tags, userId, action)
                # srvReceipt.items[itemIndex].tags
          /\ srvReceipt' = [srvReceipt EXCEPT
                !.items = ToggledItems(@, itemIndex, userId, action)]
          /\ Step("server", Null)
          /\ ops < MaxOps /\ ops' = ops + 1
          /\ pair' = PairDroppedIf(PairTracks(itemIndex))
          /\ before' = BeforeKept
    /\ UNCHANGED <<srvParticipants, srvActive, room, loading, error,
                   uploadLoading, receiptData, userShares, requests, responses>>

\* Another participant's client uploads a receipt; the parsed result replaces
\* the stored one.
OtherUpload ==
    /\ \E parsed \in ParsedReceipts : srvReceipt' = parsed
    /\ ops < MaxOps /\ ops' = ops + 1
    /\ pair' = PairDroppedIf(TRUE)
    /\ before' = BeforeKept
    /\ UNCHANGED <<srvParticipants, srvActive, room, loading, error,
                   uploadLoading, receiptData, userShares, requests, responses>>
    /\ Step("server", Null)

\* Any request may be lost or refused: axios rejects.
ServeFailure(m) ==
    /\ m \in BagToSet(requests)
    /\ Reply(m, [type |-> m.type, ok |-> FALSE, req |-> m])
    /\ Step("server", Null)
    /\ UNCHANGED ops
    /\ pair' = PairKept
    /\ before' = BeforeKept
    /\ UNCHANGED <<srvVars, viewVars, receiptData, userShares>>

\* GET /api/rooms/:roomId
ServeFetch(m) ==
    /\ m \in BagToSet(requests)
    /\ m.type = "fetch"
    /\ Reply(m, [type |-> "fetch", ok |-> TRUE, req |-> m,
                 room |-> [participants |-> srvParticipants, creator |-> Creator,
                           isActive |-> srvActive],
                 receipt |-> srvReceipt])
    /\ Step("server", Null)
    /\ UNCHANGED ops
    /\ pair' = PairKept
    /\ before' = BeforeKept
    /\ UNCHANGED <<srvVars, viewVars, receiptData, userShares>>

\* POST /api/rooms/:roomId/upload-receipt
ServeUpload(m) ==
    /\ m \in BagToSet(requests)
    /\ m.type = "upload"
    /\ \E parsed \in ParsedReceipts :
          /\ srvReceipt' = parsed
          /\ Reply(m, [type |-> "upload", ok |-> TRUE, req |-> m, receipt |-> parsed])
    /\ Step("server", Null)
    /\ UNCHANGED ops
    /\ pair' = PairDroppedIf(TRUE)
    /\ before' = BeforeKept
    /\ UNCHANGED <<srvParticipants, srvActive, viewVars, receiptData, userShares>>

\* POST /api/rooms/:roomId/items/:itemIndex/tags, accepted: the room is active.
ServeToggle(m) ==
    /\ m \in BagToSet(requests)
    /\ srvActive
    /\ m.type = "toggle"
    /\ srvReceipt # Null
    /\ m.itemIndex \in DOMAIN srvReceipt.items
    /\ LET items == ToggledItems(srvReceipt.items, m.itemIndex, m.userId, m.action)
       IN /\ srvReceipt' = [srvReceipt EXCEPT !.items = items]
          /\ Reply(m, [type |-> "toggle", ok |-> TRUE, req |-> m,
                       success |-> TRUE, items |-> items])
    /\ Step("server", Null)
    /\ UNCHANGED ops
    /\ pair' = PairKept
    /\ before' = BeforeKept
    /\ UNCHANGED <<srvParticipants, srvActive, viewVars, receiptData, userShares>>

\* The same request answered with success = false: nothing is stored.
ServeToggleRejected(m) ==
    /\ m \in BagToSet(requests)
    /\ m.type = "toggle"
    /\ srvReceipt # Null
    /\ Reply(m, [type |-> "toggle", ok |-> TRUE, req |-> m,
                 success |-> FALSE, items |-> srvReceipt.items])
    /\ Step("server", Null)
    /\ UNCHANGED ops
    /\ pair' = PairKept
    /\ before' = BeforeKept
    /\ UNCHANGED <<srvVars, viewVars, receiptData, userShares>>

\* ------------------------------------------------- fetchRoomDetails
\* setRoom(response.data.room)
RoomAfterFetch(data) == data.room

\* if (response.data.room.receipt) setReceiptData(response.data.room.receipt)
ReceiptAfterFetch(prev, data) == IF data.receipt # Null THEN data.receipt ELSE prev

\* ... and calculateShares(response.data.room.receipt.items)
SharesAfterFetch(shares, data) ==
    IF data.receipt # Null THEN calculateShares(data.receipt.items) ELSE shares

\* The finally block of handleFileUpload runs when the fetch it awaited ends.
UploadLoadingAfterFetch(r) == IF r.req.chained THEN FALSE ELSE uploadLoading

FetchSucceeded(r) ==
    /\ r \in BagToSet(responses)
    /\ r.type = "fetch" /\ r.ok
    /\ Receive(r)
    /\ room' = RoomAfterFetch(r)
    /\ receiptData' = ReceiptAfterFetch(receiptData, r)
    /\ userShares' = SharesAfterFetch(userShares, r)
    /\ loading' = FALSE
    /\ uploadLoading' = UploadLoadingAfterFetch(r)
    /\ Step("fetchSucceeded", r)
    /\ UNCHANGED ops
    /\ pair' = PairDroppedIf(r.receipt # Null)
    /\ before' = Null
    /\ UNCHANGED <<srvVars, error, requests>>

FetchFailed(r) ==
    /\ r \in BagToSet(responses)
    /\ r.type = "fetch" /\ ~r.ok
    /\ Receive(r)
    /\ error' = "Failed to fetch room details"
    /\ loading' = FALSE
    /\ uploadLoading' = UploadLoadingAfterFetch(r)
    /\ Step("fetchFailed", r)
    /\ UNCHANGED ops
    /\ pair' = PairKept
    /\ before' = BeforeKept
    /\ UNCHANGED <<srvVars, room, receiptData, userShares, requests>>

\* ------------------------------------------------- handleFileUpload
AcceptedType(fileType) == fileType \in {"image/jpeg", "image/png"}

\* The file input is disabled while uploadLoading.
RejectFile(fileType) ==
    /\ Rendered /\ ~uploadLoading
    /\ ~AcceptedType(fileType)
    /\ error' = "Please upload only JPEG or PNG images"
    /\ Step("rejectFile", Null)
    /\ ops < MaxOps /\ ops' = ops + 1
    /\ pair' = PairKept
    /\ before' = Snapshot
    /\ UNCHANGED <<srvVars, room, loading, uploadLoading, receiptData, userShares,
                   requests, responses>>

StartUpload(fileType) ==
    /\ Rendered /\ ~uploadLoading
    /\ AcceptedType(fileType)
    /\ Outstanding < MaxOutstanding
    /\ uploadLoading' = TRUE
    /\ Send([type |-> "upload"])
    /\ Step("startUpload", Null)
    /\ ops < MaxOps /\ ops' = ops + 1
    /\ pair' = PairKept
    /\ before' = Snapshot
    /\ UNCHANGED <<srvVars, room, loading, error, receiptData, userShares,
                   responses>>

\* setReceiptData(response.data); await fetchRoomDetails()
UploadSucceeded(r) ==
    /\ r \in BagToSet(responses)
    /\ r.type = "upload" /\ r.ok
    /\ Receive(r)
    /\ receiptData' = r.receipt
    /\ Send(FetchRequest(TRUE))
    /\ Step("uploadSucceeded", Null)
    /\ UNCHANGED ops
    /\ pair' = PairDroppedIf(TRUE)
    /\ before' = BeforeKept
    /\ UNCHANGED <<srvVars, room, loading, error, uploadLoading, userShares>>

UploadFailed(r) ==
    /\ r \in BagToSet(responses)
    /\ r.type = "upload" /\ ~r.ok
    /\ Receive(r)
    /\ error' = "Failed to upload receipt"
    /\ uploadLoading' = FALSE
    /\ Step("uploadFailed", Null)
    /\ UNCHANGED ops
    /\ pair' = PairKept
    /\ before' = BeforeKept
    /\ UNCHANGED <<srvVars, room, loading, receiptData, userShares, requests>>

\* ------------------------------------------------- handleTagToggle
\* CurrentUser as one fixed identity, whatever the room's list holds.
CurrentUserFixed(r) == UserName[NUsers]

\* room.participants[room.participants.length - 1]
CurrentUser(r) == r.participants[Len(r.participants)]

\* ToggleAction that never looks at the local tags.
ToggleActionAlwaysAdd(item, userId) == "add"

\* isTagged ? "remove" : "add"
ToggleAction(item, userId) == IF userId \in item.tags THEN "remove" ELSE "add"

\* undefined
Undefined == [undefined |-> TRUE]

\* ItemAt with the index wrapped into the list.
ItemAtWrapped(items, itemIndex) == items[((itemIndex - 1) % Len(items)) + 1]

\* receiptData.items[itemIndex]: undefined outside the array.
ItemAt(items, itemIndex) ==
    IF itemIndex \in DOMAIN items THEN items[itemIndex] ELSE Undefined

\* The request handleTagToggle(itemIndex) posts.
ToggleRequest(itemIndex) ==
    LET userId == CurrentUser(room)
    IN [type |-> "toggle", itemIndex |-> itemIndex, userId |-> userId,
        action |-> ToggleAction(ItemAt(receiptData.items, itemIndex), userId)]

\* The "Tag Me" / "Tagged" button of a rendered item is clicked; the code runs
\* up to its await.
ToggleSend(itemIndex) ==
    /\ Rendered
    /\ receiptData # Null
    /\ ItemAt(receiptData.items, itemIndex) # Undefined
    /\ Len(room.participants) > 0
    /\ Outstanding < MaxOutstanding
    /\ Send(ToggleRequest(itemIndex))
    /\ Step("toggleSend", ToggleRequest(itemIndex))
    /\ ops < MaxOps /\ ops' = ops + 1
    /\ pair' = PairOnSend(ToggleRequest(itemIndex))
    /\ before' = BeforeKept
    /\ UNCHANGED <<srvVars, viewVars, receiptData, userShares, responses>>

\* handleTagToggle called with an index that has no item: item is undefined and
\* `item.tags` throws a TypeError before the request is made; the promise the
\* handler returns is rejected. No button of the page passes such an index.
ToggleThrows(itemIndex) ==
    /\ Rendered
    /\ receiptData # Null
    /\ Len(room.participants) > 0
    /\ ItemAt(receiptData.items, itemIndex) = Undefined
    /\ Step("toggleThrew", [itemIndex |-> itemIndex])
    /\ ops < MaxOps /\ ops' = ops + 1
    /\ pair' = PairKept
    /\ before' = BeforeKept
    /\ UNCHANGED <<srvVars, viewVars, receiptData, userShares, requests,
                   responses>>

\* ReceiptAfterToggle without the test of response.data.success.
ReceiptAfterToggleUnchecked(prev, data, itemIndex) ==
    IF prev # Null
    THEN [prev EXCEPT !.items[itemIndex].tags = data.items[itemIndex].tags]
    ELSE prev

\* ReceiptAfterToggle that drops the response.
ReceiptAfterToggleIgnored(prev, data, itemIndex) == prev

\* ReceiptAfterToggle that merges the response into the local tags.
ReceiptAfterToggleMerged(prev, data, itemIndex) ==
    IF data.success /\ prev # Null
    THEN [prev EXCEPT !.items[itemIndex].tags = @ \cup data.items[itemIndex].tags]
    ELSE prev

\* if (response.data.success) setReceiptData(prev => ...)
ReceiptAfterToggle(prev, data, itemIndex) ==
    IF data.success /\ prev # Null
    THEN [prev EXCEPT !.items[itemIndex].tags = data.items[itemIndex].tags]
    ELSE prev

\* if (response.data.success) calculateShares(response.data.items)
SharesAfterToggle(shares, data) ==
    IF data.success THEN calculateShares(data.items) ELSE shares

\* ErrorAfterToggle with the message cleared once a toggle is accepted.
ErrorClearedOnSuccess(err, data) == IF data.success THEN "" ELSE err

\* The error message after a toggle response: no branch calls setError.
ErrorAfterToggle(err, data) == err

ToggleAnswered(r) ==
    /\ r \in BagToSet(responses)
    /\ r.type = "toggle" /\ r.ok
    /\ Receive(r)
    /\ receiptData' = ReceiptAfterToggle(receiptData, r, r.req.itemIndex)
    /\ userShares' = SharesAfterToggle(userShares, r)
    /\ Step(IF r.success THEN "toggleApplied" ELSE "toggleRefused", r)
    /\ UNCHANGED ops
    /\ pair' = PairOnAnswer(r, receiptData'.items[r.req.itemIndex].tags)
    /\ before' = IF r.success THEN Null ELSE BeforeKept
    /\ error' = ErrorAfterToggle(error, r)
    /\ UNCHANGED <<srvVars, room, loading, uploadLoading, requests>>

\* catch (error) { console.error(...) }
ToggleFailed(r) ==
    /\ r \in BagToSet(responses)
    /\ r.type = "toggle" /\ ~r.ok
    /\ Receive(r)
    /\ Step("toggleFailed", Null)
    /\ UNCHANGED ops
    /\ pair' = PairDroppedIf(PairTracks(r.req.itemIndex))
    /\ before' = BeforeKept
    /\ UNCHANGED <<srvVars, viewVars, receiptData, userShares, requests>>

\* ------------------------------------------------- handleRequestPayment
\* The test of the amount: `userShares[participant.userId] > 0` of the button
\* and `if (amount <= 0) return` of the handler.
NoShareTest(shares, userId) == TRUE

AmountPositive(shares, userId) == ShareOrZero(shares, userId) > 0

\* The "Request Payment" button of a participant's card is on the page.
RequestButtonShown(participantId) ==
    /\ Rendered
    /\ participantId \in Range(room.participants)
    /\ AmountPositive(userShares, participantId)
    /\ participantId # room.creator
    /\ CurrentUser(room) = participantId

\* What handleRequestPayment(participantId) opens: Null when it returns early,
\* else the payment link, payable to the participant, opened on the page of
\* the viewing participant (currentUser).
PaymentIntent(participantId) ==
    IF room = Null \/ receiptData = Null THEN Null
    ELSE IF participantId \notin Range(room.participants) THEN Null
    ELSE IF ~AmountPositive(userShares, participantId) THEN Null
    ELSE [participantId |-> participantId,
          requester |-> CurrentUser(room),
          amount |-> ShareOrZero(userShares, participantId)]

\* The button is clicked. window.open and the snackbar change nothing of the
\* state that is followed here.
RequestPayment(participantId) ==
    /\ RequestButtonShown(participantId)
    /\ Step("requestPayment", PaymentIntent(participantId))
    /\ ops < MaxOps /\ ops' = ops + 1
    /\ pair' = PairKept
    /\ before' = BeforeKept
    /\ UNCHANGED <<srvVars, viewVars, receiptData, userShares, requests,
                   responses>>

\* The try block throws (window.open refused by the browser): the catch sets
\* the error message.
RequestPaymentFailed(participantId) ==
    /\ RequestButtonShown(participantId)
    /\ PaymentIntent(participantId) # Null
    /\ error' = "Failed to send payment request"
    /\ Step("requestPaymentFailed", Null)
    /\ ops < MaxOps /\ ops' = ops + 1
    /\ pair' = PairKept
    /\ before' = BeforeKept
    /\ UNCHANGED <<srvVars, room, loading, uploadLoading, receiptData, userShares,
                   requests, responses>>

\* ------------------------------------------------------------- Next
Next ==
    \/ Join
    \/ \E i \in ItemIndices, u \in Users : OtherToggle(i, u)
    \/ OtherUpload
    \/ \E m \in BagToSet(requests) : ServeFailure(m)
    \/ \E m \in BagToSet(requests) : ServeFetch(m)
    \/ \E m \in BagToSet(requests) : ServeUpload(m)
    \/ \E m \in BagToSet(requests) : ServeToggle(m)
    \/ \E m \in BagToSet(requests) : ServeToggleRejected(m)
    \/ \E r \in BagToSet(responses) : FetchSucceeded(r)
    \/ \E r \in BagToSet(responses) : FetchFailed(r)
    \/ \E t \in FileTypes : RejectFile(t)
    \/ \E t \in FileTypes : StartUpload(t)
    \/ \E r \in BagToSet(responses) : UploadSucceeded(r)
    \/ \E r \in BagToSet(responses) : UploadFailed(r)
    \/ \E i \in CallIndices : ToggleSend(i)
    \/ \E i \in CallIndices : ToggleThrows(i)
    \/ \E r \in BagToSet(responses) : ToggleAnswered(r)
    \/ \E r \in BagToSet(responses) : ToggleFailed(r)
    \/ \E u \in Users : RequestPayment(u)
    \/ \E u \in Users : RequestPaymentFailed(u)

Spec == Init /\ [][Next]_vars

\* ============================================================= claims
\* The component's latest step ran calculateShares ...
Computed ==
    \/ last.op = "toggleApplied"
    \/ last.op = "fetchSucceeded" /\ last.msg.receipt # Null

\* ... on these items.
ComputedItems ==
    IF last.op = "toggleApplied" THEN last.msg.items ELSE last.msg.receipt.items

\* What the items a user is tagged on add up to: price / (number of tags) each.
RECURSIVE ItemPart(_, _, _)
ItemPart(items, n, userId) ==
    IF n = 0 THEN 0
    ELSE ItemPart(items, n - 1, userId)
         + (IF userId \in items[n].tags
            THEN Divide(items[n].price, Cardinality(items[n].tags))
            ELSE 0)

RECURSIVE PriceSum(_, _)
PriceSum(items, n) == IF n = 0 THEN 0 ELSE PriceSum(items, n - 1) + items[n].price

RECURSIVE TableSum(_, _)
TableSum(shares, S) ==
    IF S = {} THEN 0
    ELSE LET u == CHOOSE x \in S : TRUE IN shares[u] + TableSum(shares, S \ {u})

SharedCharges(receipt) == receipt.serviceCharge + receipt.cgst + receipt.sgst

RemoveAt(s, k) == SubSeq(s, 1, k - 1) \o SubSeq(s, k + 1, Len(s))
InsertAt(s, k, x) == SubSeq(s, 1, k - 1) \o <<x>> \o SubSeq(s, k, Len(s))

\* C1: once a successful toggle response is applied, the local tag set of
\* every item equals the tag set of the item at that index in the response.
C1_AllItemsReplaced ==
    last.op = "toggleApplied" =>
        \A k \in DOMAIN receiptData.items :
            receiptData.items[k].tags = last.msg.items[k].tags

\* Steps of a toggle other than applying a successful response: the request
\* is submitted, the room resource takes it, the response is a failure or
\* carries success = false.
ToggleIssued ==
    \E m \in BagToSet(requests') :
        m.type = "toggle" /\ CopiesIn(m, requests') > CopiesIn(m, requests)

ToggleTaken ==
    \E m \in BagToSet(requests) :
        m.type = "toggle" /\ CopiesIn(m, requests') < CopiesIn(m, requests)

ToggleEndedWithoutSuccess ==
    \E r \in BagToSet(responses) :
        /\ r.type = "toggle"
        /\ CopiesIn(r, responses') < CopiesIn(r, responses)
        /\ (r.ok => ~r.success)

\* C2: no step of a toggle changes the local tag sets or the share table,
\* except the processing of a response with success = true.
C2_OnlySuccessChangesLocal ==
    [][(ToggleIssued \/ ToggleTaken \/ ToggleEndedWithoutSuccess)
          => UNCHANGED <<receiptData, userShares>>]_vars

\* A response with success = false, whose items differ from the local ones,
\* has been processed.
C2_Witness ==
    /\ last.op = "toggleRefused"
    /\ last.msg.items # receiptData.items

\* C3: every participant's computed share is what their tagged items add up
\* to plus S/n, S the service charge plus the taxes, n the participants.
C3_SharedChargesSplit ==
    Computed =>
        LET n == Len(room.participants)
        IN \A u \in Range(room.participants) :
              n * ShareOrZero(userShares, u)
                 = n * ItemPart(ComputedItems, Len(ComputedItems), u)
                   + Scale * SharedCharges(receiptData)

\* C4: in the computed table an item with k > 0 tags adds price / k to each
\* tagged user and nothing to anyone else, an untagged item adds nothing:
\* taking an untagged item out of the list, or putting one in, changes no share.
C4_ItemContributions ==
    Computed =>
        LET items == ComputedItems
        IN /\ \A u \in Users :
                 ShareOrZero(userShares, u) = ItemPart(items, Len(items), u)
           /\ \A u \in DOMAIN userShares : \E k \in DOMAIN items : u \in items[k].tags
           /\ \A k \in DOMAIN items :
                 items[k].tags = {} => calculateShares(RemoveAt(items, k)) = userShares
           /\ \A k \in 1..(Len(items) + 1) :
                 calculateShares(InsertAt(items, k, Item("Water", 50))) = userShares

\* Shares were computed from a list with an item two users share and an
\* untagged item.
C4_Witness ==
    /\ Computed
    /\ \E k \in DOMAIN ComputedItems : Cardinality(ComputedItems[k].tags) = 2
    /\ \E k \in DOMAIN ComputedItems : ComputedItems[k].tags = {}

\* C5: after a share computation the keys of the share table are exactly the
\* ids of the room's participants, each with a non-negative amount.
C5_TableTotal ==
    Computed =>
        /\ DOMAIN userShares = Range(room.participants)
        /\ \A u \in DOMAIN userShares : userShares[u] >= 0

\* C6: when every item is tagged (by participants of the room), the shares
\* add up to the item prices plus the service charge plus cgst plus sgst.
C6_SharesConserveTotal ==
    (/\ Computed
     /\ \A k \in DOMAIN ComputedItems :
           /\ ComputedItems[k].tags # {}
           /\ ComputedItems[k].tags \subseteq Range(room.participants))
    => TableSum(userShares, DOMAIN userShares)
          = Scale * (PriceSum(ComputedItems, Len(ComputedItems))
                     + SharedCharges(receiptData))

\* C7: a submitted toggle carries the acting participant, asks to remove the
\* tag exactly when that participant is in the local tag set of the item at
\* that moment and to add it otherwise, and submitting changes no local tags.
C7_ActionFromLocalTags ==
    [][\A m \in BagToSet(requests') :
          (m.type = "toggle" /\ CopiesIn(m, requests') > CopiesIn(m, requests))
          => /\ m.userId = CurrentUser(room)
             /\ m.action \in {"add", "remove"}
             /\ m.action = "remove"
                   <=> m.userId \in receiptData.items[m.itemIndex].tags
             /\ receiptData' = receiptData]_vars

\* A toggle that asks to remove a tag has been submitted.
C7_Witness == last.op = "toggleSend" /\ last.msg.action = "remove"

\* C8 as stated: two consecutive successful toggles of an item by the session,
\* with no other change of the item in between, leave the authoritative and
\* the local tag set as they were before the first.
C8_DoubleToggleRestores ==
    pair.phase = 4 => pair.srvRestored /\ pair.localRestored

\* C8 amended: the same, for a pair whose first toggle was issued when the
\* local tag set of the item equalled the authoritative one.
C8_DoubleToggleRestoresUpToDate ==
    (pair.phase = 4 /\ pair.upToDate) => pair.srvRestored /\ pair.localRestored

\* Such a pair has completed.
C8_Witness == pair.phase = 4 /\ pair.upToDate

\* C9: the session never has two toggles of the same item outstanding.
C9_TogglesSerialized ==
    \A i \in ItemIndices : TogglesOutstanding(i) <= 1

\* C10: once a successful toggle response is applied, the local tag set of the
\* toggled item is the one the response carries for it (the room resource's
\* at the time it answered), whatever the local tag set was.
C10_ToggledItemMatchesResponse ==
    last.op = "toggleApplied" =>
        receiptData.items[last.msg.req.itemIndex].tags
            = last.msg.items[last.msg.req.itemIndex].tags

\* A response to a request to remove the session's tag has been applied while
\* another participant's tag stays on the item.
C10_Witness ==
    /\ last.op = "toggleApplied"
    /\ last.msg.req.action = "remove"
    /\ receiptData.items[last.msg.req.itemIndex].tags # {}

\* A payment link has been opened by the latest step.
PaymentOpened == last.op = "requestPayment" /\ last.msg # Null

\* C11: no payment is requested from the requesting participant: whenever a
\* payment intent is opened, its target is not the viewing participant.
C11_NoSelfSettlement ==
    PaymentOpened => last.msg.participantId # last.msg.requester

\* C12: a payment intent is opened only for a member of the room's participant
\* list whose share in the table is strictly positive; never for a share of 0
\* or a participant without an entry.
C12_OnlyPositiveShares ==
    /\ PaymentOpened =>
          /\ last.msg.participantId \in Range(room.participants)
          /\ last.msg.participantId \in DOMAIN userShares
          /\ userShares[last.msg.participantId] > 0
          /\ last.msg.amount = userShares[last.msg.participantId]
    /\ \A u \in Users :
          ShareOrZero(userShares, u) <= 0 => PaymentIntent(u) = Null

\* A payment intent has been opened while another participant of the room has
\* no share.
C12_Witness ==
    /\ PaymentOpened
    /\ \E u \in Range(room.participants) : u \notin DOMAIN userShares
\* Some item's local tag set differs between the two states of a step.
LocalTagsChange ==
    /\ receiptData # Null /\ receiptData' # Null
    /\ \E k \in DOMAIN receiptData.items \cap DOMAIN receiptData'.items :
          receiptData'.items[k].tags # receiptData.items[k].tags

\* C13: while the fetched snapshot of the room has isActive = false the session
\* submits no toggle request and its local tag sets do not change.
C13_InactiveReadOnly ==
    [][(room # Null /\ ~room.isActive) => (~ToggleIssued /\ ~LocalTagsChange)]_vars
\* The latest step ended an upload operation in failure: the file was refused
\* for its type, the upload request failed, or the fetch that follows a
\* successful upload failed.
UploadEndedInFailure ==
    \/ last.op \in {"rejectFile", "uploadFailed"}
    \/ last.op = "fetchFailed" /\ last.msg.req.chained

\* C14: when an upload operation ends in failure, the local receipt and the
\* share table are what they were before the upload was started.
C14_FailedUploadPreservesSnapshot ==
    (UploadEndedInFailure /\ before # Null) =>
        /\ receiptData = before.receiptData
        /\ userShares = before.userShares
\* C15: a toggle whose index is outside the local item list ends in an error
\* (the handler throws), submits no request, and leaves the local receipt and
\* the share table unchanged: no submitted toggle carries such an index, and
\* the step that throws changes nothing of the component or the network.
C15_OutOfRangeToggle ==
    [][/\ \A m \in BagToSet(requests') :
             (m.type = "toggle" /\ CopiesIn(m, requests') > CopiesIn(m, requests))
             => m.itemIndex \in DOMAIN receiptData.items
       /\ last'.op = "toggleThrew" =>
             /\ last'.msg.itemIndex \notin DOMAIN receiptData.items
             /\ UNCHANGED <<receiptData, userShares, requests, responses,
                            room, error, srvReceipt>>]_vars

\* The handler has thrown for an index right after the last item while a
\* toggle of the session is outstanding.
C15_Witness ==
    /\ last.op = "toggleThrew"
    /\ last.msg.itemIndex = Len(receiptData.items) + 1
    /\ Outstanding > 0
C17_SharesMatchLocalItems ==
    Outstanding = 0 =>
        userShares = (IF receiptData = Null THEN << >>
                      ELSE calculateShares(receiptData.items))
\* C18: once the error message is non-empty no later step empties it, and
\* whenever it is non-empty the view shows the error branch, not the room.
C18_ErrorIsPermanent ==
    [][/\ error # "" => error' # ""
       /\ error' # "" => (ErrorShown' /\ ~Rendered')]_vars

\* A successful toggle response has been processed after the error was set.
C18_Witness == last.op = "toggleApplied" /\ error # ""

====
